---------------------------- MODULE Spec2Model ----------------------------
(***************************************************************************)
(* The trading decision loop of backend/trading_bot.py (TradingBot) with   *)
(* the helpers it imports (time gates, broker gateway, trade store).       *)
(*                                                                         *)
(* Time is a discrete clock: tod is the instant of the IST day and         *)
(* trading_day says whether its weekday is Monday to Friday.  Durations    *)
(* are kept as ages relative to the clock (elapsed, last_exit, cct_age).   *)
(* The co-operative scheduler is the program counter pc of the loop task:  *)
(* the values in SuspPcs are the awaits at which the event loop can run    *)
(* something else (a request handler, the passing of time); every other    *)
(* value is a position inside a run of code that does not yield.           *)
(* SuperTrend is seen from the loop as the number of candles it holds and  *)
(* the signal it returns, which is an input.                               *)
(*                                                                         *)
(* Two calculations are also specified on their own, with numbers the      *)
(* loop's state space has no room for: SpecTrail applies                   *)
(* check_trailing_sl_on_close to one position over a range of premiums,    *)
(* SpecSuperTrend feeds candles to SuperTrend.add_candle computed with     *)
(* exact fractions.  SpecBroadcast is ConnectionManager of server.py, whose *)
(* broadcast the loop awaits once per iteration, with subscribers coming    *)
(* and going while a send is awaited.  Spec keeps their extra variables     *)
(* constant.  SpecDay is the loop left to itself through a day it did not   *)
(* start on: no request is served, and the day begins with the task in its  *)
(* idle sleep and the indicator warm.                                       *)
(***************************************************************************)
EXTENDS Integers, Sequences, FiniteSets, TLC

(* ---------------- configuration (config.py) and model bounds ----------- *)
\* config['order_qty'] and the NIFTY lot size
order_qty == 1
lot_size == 50
\* small stand-ins for the user-settable configuration values
max_trades_per_day == 2
daily_max_loss == 50
trail_start_profit == 1
trail_step == 2
supertrend_period == 2
supertrend_multiplier == 1
candle_interval == 2
\* asyncio.sleep arguments of run_loop
SleepTick == 1
SleepIdle == 5
\* option premiums the broker can report
MaxPrice == 2
\* the trading day, in clock instants
PreOpenTicks == 1
ResetTicks == 4
SessionTicks == 7
CutoffTicks == 1
SquareoffTicks == 1
AfterTicks == 1
\* how much of the environment one run explores
MaxDays == 1
MaxEntries == 3
MaxManual == 1
MaxStarts == 1
MaxModeChanges == 1
\* the longest an iteration's awaits, or a request's awaits, can take (timeouts)
MaxAwait == 1
\* option premiums of the trailing-stop calculation
MaxPremium == 8
\* SuperTrend defaults, the index prices and the number of candles fed to the
\* indicator on its own, and the stand-in for the 100 entries it keeps
DefaultPeriod == 7
DefaultMultiplier == 4
MaxIndex == 2
MaxCandles == 8
MaxHistory == 2
\* websockets that can be connected at a time
MaxConnections == 3

T_OPEN == PreOpenTicks
T_RESET_END == T_OPEN + ResetTicks
T_CUTOFF == T_RESET_END + SessionTicks
T_SQUAREOFF == T_CUTOFF + CutoffTicks
T_CLOSE == T_SQUAREOFF + SquareoffTicks
DayLen == T_CLOSE + AfterTicks + 1

Prices == 1..MaxPrice
None == -1
Qty == order_qty * lot_size

Min(a, b) == IF a < b THEN a ELSE b
Max(a, b) == IF a > b THEN a ELSE b

VARIABLES
    tod, trading_day,           \* wall clock: instant of the day, ist.weekday() < 5
    budget,                     \* days, entries, requests the run has used
    running, pc, sleep_left,    \* TradingBot.running, position of the loop task, pending sleep
    loc,                        \* locals of the loop task held across an await
    mode,                       \* bot_state['mode']
    pos,                        \* TradingBot.current_position
    entry_price, trailing_sl, highest_profit,
    ltp,                        \* bot_state['current_option_ltp']
    daily_trades, daily_pnl, triggered, max_drawdown,
    last_exit,                  \* age of last_exit_candle_time, None when unset
    elapsed,                    \* now - candle_start_time, capped at candle_interval
    cct_age,                    \* now - current_candle_time inside an iteration
    m_age,                      \* time the request in flight has been waiting
    index_seen, candle_has,     \* bot_state['index_ltp'] > 0, high > 0
    st_len, last_signal,        \* len(supertrend.candles), bot_state['last_supertrend_signal']
    mpc, mloc,                  \* the /bot/squareoff request in flight
    ev,                         \* what the last step did; after a close, the exit_reason
                                \* it gave update_trade_exit
    forced, force_rejected,     \* this iteration called squareoff(); its SELL was refused
    iter_closes,                \* positions the loop closed in this iteration
    resets_today,               \* daily resets applied in the running 09:15 minute (counted to 2)
    loss_hit,                   \* a close left daily_pnl below -daily_max_loss since the last reset
    opened_today,               \* positions stored since the day began
    since_close,                \* age of the latest exit, None when none is younger than a candle
    peak,                       \* largest profit check_trailing_sl was called with since the entry
    st, st_out,                 \* the SuperTrend object and what add_candle returned last
    st_full, st_full_out,       \* the same indicator keeping its whole history
    active_connections,         \* ConnectionManager.active_connections
    bc                          \* the frame of ConnectionManager.broadcast

clockVars == <<tod, trading_day>>
taskVars == <<running, pc, sleep_left, loc>>
posVars == <<pos, entry_price, trailing_sl, highest_profit>>
riskVars == <<daily_trades, daily_pnl, triggered, max_drawdown, loss_hit, opened_today>>
candleVars == <<elapsed, cct_age, index_seen, candle_has>>
stVars == <<st_len, last_signal>>
manualVars == <<mpc, mloc, m_age>>
iterVars == <<forced, force_rejected, iter_closes>>
managerVars == <<active_connections, bc>>
calcVars == <<peak, st, st_out, st_full, st_full_out, active_connections, bc>>
vars == <<tod, trading_day, budget, running, pc, sleep_left, loc, mode, pos, entry_price, trailing_sl,
          highest_profit, ltp, daily_trades, daily_pnl, triggered, max_drawdown,
          last_exit, elapsed, cct_age, index_seen, candle_has, st_len, last_signal,
          mpc, mloc, m_age, ev, forced, force_rejected, iter_closes,
          resets_today, loss_hit, opened_today, since_close, peak, st, st_out, st_full,
          st_full_out,
          active_connections, bc>>

NoPosition == [open |-> FALSE, option_type |-> "NA", security |-> "NA", live |-> FALSE]
NoLoc == [pnl |-> 0, reason |-> "NA", cont |-> "NA", signal |-> "NA",
          option_type |-> "NA", security |-> "NA", price |-> 0, sold |-> FALSE]
NoMloc == [price |-> 0, pnl |-> 0, sold |-> FALSE]
NoBroadcast == [pc |-> "idle", i |-> 0, connection |-> 0, first |-> {}, received |-> {},
                failed |-> {}]

SuspPcs == {"off", "sleep", "sq_order", "close_wait", "enter_lookup", "enter_order",
            "enter_save"}
AtSuspension == pc \in SuspPcs

(* ---------------- time gates (utils, as in server.py) ------------------ *)
is_reset_minute(t) == T_OPEN <= t /\ t < T_RESET_END
is_market_open(t, weekday_lt_5) == T_OPEN <= t /\ t <= T_CLOSE /\ weekday_lt_5
\* a gate that never closes: entries after the cutoff would follow
can_take_new_trade_always(t) == TRUE
can_take_new_trade(t) == t < T_CUTOFF
\* a square-off that starts one instant late
should_force_squareoff_late(t) == t > T_SQUAREOFF
should_force_squareoff(t) == t >= T_SQUAREOFF


(* ---------------- trailing stop (check_trailing_sl) -------------------- *)
\* Python's int(a / b): truncation towards zero
Trunc(a, b) == IF a >= 0 THEN a \div b ELSE -((-a) \div b)

HighestProfitAfter(hp, profit) == IF profit > hp THEN profit ELSE hp

\* a stop rounded up to the next whole step
NewSl_rounded_up(entry, hp) == entry + (Trunc(hp - trail_start_profit, trail_step) + 1) * trail_step
\* a stop that follows the profit without rounding down to whole steps
NewSl_unstepped(entry, hp) == entry + (hp - trail_start_profit)
NewSl(entry, hp) == entry + Trunc(hp - trail_start_profit, trail_step) * trail_step

\* a stop that is dropped when the profit falls below trail_start_profit
TrailingSlAfter_dropping(sl, entry, hp, profit) ==
    IF profit >= trail_start_profit
    THEN IF sl = None \/ NewSl(entry, hp) > sl THEN NewSl(entry, hp) ELSE sl
    ELSE None

TrailingSlAfter(sl, entry, hp, profit) ==
    IF profit >= trail_start_profit
    THEN IF sl = None \/ NewSl(entry, hp) > sl THEN NewSl(entry, hp) ELSE sl
    ELSE sl

\* a stop that never fires
is_breached_never(sl, price) == FALSE
\* "if self.trailing_sl and current_ltp <= self.trailing_sl": a stop of 0 is falsy
is_breached(sl, price) == sl # None /\ sl # 0 /\ price <= sl

PnL(exit_price, entry) == (exit_price - entry) * Qty

\* a loss limit that never trips
LossLimitHit_never(pnl_total) == FALSE
\* a loss limit that already trips when the total equals the limit
LossLimitHit_at_limit(pnl_total) == pnl_total <= -daily_max_loss
LossLimitHit(pnl_total) == pnl_total < -daily_max_loss

(* ---------------- shared pieces of the handlers ------------------------ *)
\* a close that leaves the trailing stop and the best profit as they were
CloseCommit_keeping_trail(pnl, reason) ==
    /\ daily_pnl' = daily_pnl + pnl
    /\ triggered' = (triggered \/ LossLimitHit(daily_pnl + pnl))
    /\ loss_hit' = (loss_hit \/ daily_pnl + pnl < -daily_max_loss)
    /\ max_drawdown' = IF pnl < 0 /\ -pnl > max_drawdown THEN -pnl ELSE max_drawdown
    /\ pos' = NoPosition
    /\ entry_price' = 0
    /\ ev' = reason
    /\ since_close' = IF pos.open THEN 0 ELSE since_close
    /\ UNCHANGED <<daily_trades, opened_today, trailing_sl, highest_profit>>

\* close_position after the await of update_trade_exit (lines 112-127)
CloseCommit(pnl, reason) ==
    /\ daily_pnl' = daily_pnl + pnl
    /\ triggered' = (triggered \/ LossLimitHit(daily_pnl + pnl))
    /\ loss_hit' = (loss_hit \/ daily_pnl + pnl < -daily_max_loss)
    /\ max_drawdown' = IF pnl < 0 /\ -pnl > max_drawdown THEN -pnl ELSE max_drawdown
    /\ pos' = NoPosition
    /\ entry_price' = 0
    /\ trailing_sl' = None
    /\ highest_profit' = 0
    /\ ev' = reason
    /\ since_close' = IF pos.open THEN 0 ELSE since_close
    /\ UNCHANGED <<daily_trades, opened_today>>

\* "Reset candle" (lines 232-234)
ResetCandle ==
    /\ elapsed' = 0
    /\ candle_has' = FALSE

\* an exception that ends the loop task
LoopException_ends_task ==
    /\ pc' = "off"
    /\ sleep_left' = 0
    /\ loc' = NoLoc
    /\ forced' = FALSE /\ force_rejected' = FALSE /\ iter_closes' = 0
    /\ ev' = "exception"

\* the except branch of run_loop (lines 273-275)
LoopException ==
    /\ pc' = "sleep"
    /\ sleep_left' = SleepIdle
    /\ loc' = NoLoc
    /\ forced' = FALSE /\ force_rejected' = FALSE /\ iter_closes' = 0
    /\ ev' = "exception"

\* an aborted entry that leaves a simulated position behind
EntryAborted_opening(why) ==
    /\ ResetCandle /\ pc' = "tail" /\ loc' = NoLoc
    /\ ev' = why
    /\ pos' = [open |-> TRUE, option_type |-> loc.option_type, security |-> "SIM",
               live |-> TRUE]
    /\ UNCHANGED <<entry_price, trailing_sl, highest_profit, ltp, daily_trades, opened_today>>

\* an aborted entry that still counts as a trade
EntryAborted_counted(why) ==
    /\ ResetCandle /\ pc' = "tail" /\ loc' = NoLoc
    /\ ev' = why
    /\ daily_trades' = daily_trades + 1
    /\ UNCHANGED <<posVars, ltp, opened_today>>

\* enter_position returns before "Save position" (lines 441-451); run_loop
\* goes on to reset the candle
EntryAborted(why) ==
    /\ ResetCandle /\ pc' = "tail" /\ loc' = NoLoc
    /\ ev' = why
    /\ UNCHANGED <<posVars, ltp, daily_trades, opened_today>>

\* enter_position, "Save position" (lines 458-475)
StorePosition(option_type, security, price, live) ==
    /\ pos' = [open |-> TRUE, option_type |-> option_type, security |-> security,
               live |-> live]
    /\ entry_price' = price
    /\ trailing_sl' = None
    /\ highest_profit' = 0
    /\ daily_trades' = daily_trades + 1
    /\ opened_today' = opened_today + 1
    /\ ltp' = price
    /\ pc' = "enter_save"
    /\ loc' = NoLoc
    /\ ev' = "enter_store"

(* ---------------- SuperTrend (indicators, as in server.py) ------------- *)
\* The floats of the indicator are exact fractions <<numerator, denominator>>
\* in lowest terms with a positive denominator.
Abs(a) == IF a < 0 THEN -a ELSE a
RECURSIVE GCD(_, _)
GCD(a, b) == IF a = 0 THEN b ELSE GCD(b % a, a)
Rat(n, d) == LET g == GCD(Abs(n), d) IN <<n \div g, d \div g>>
RAdd(a, b) == Rat(a[1] * b[2] + b[1] * a[2], a[2] * b[2])
RSub(a, b) == Rat(a[1] * b[2] - b[1] * a[2], a[2] * b[2])
RMulInt(a, k) == Rat(a[1] * k, a[2])
RDivInt(a, k) == Rat(a[1], a[2] * k)
RLess(a, b) == a[1] * b[2] < b[1] * a[2]

\* SuperTrend.__init__
NewSuperTrend(period, multiplier) ==
    [period |-> period, multiplier |-> multiplier, candles |-> <<>>, atr_values |-> <<>>,
     supertrend_values |-> <<>>, direction |-> 1]
\* "return None, None"
NoOutput == [defined |-> FALSE, value |-> <<0, 1>>, signal |-> "NA"]

\* lines 273-277 and 286-290: the true range of candle i, high - low for the first
TrueRange(candles, i) ==
    IF i > 1
    THEN Max(candles[i].high - candles[i].low,
             Max(Abs(candles[i].high - candles[i - 1].close),
                 Abs(candles[i].low - candles[i - 1].close)))
    ELSE candles[i].high - candles[i].low

RECURSIVE SumTrueRanges(_, _, _)
SumTrueRanges(candles, from, to) ==
    IF from > to THEN 0 ELSE TrueRange(candles, from) + SumTrueRanges(candles, from + 1, to)

\* lines 281-296: simple average of the last `period` true ranges
InitialATR(candles, period) ==
    LET n == Len(candles)
        from == Max(0, n - period) + 1
    IN  Rat(SumTrueRanges(candles, from, n), n - from + 1)

\* line 298: Wilder smoothing
NextATR(prev_atr, tr, period) == RDivInt(RAdd(RMulInt(prev_atr, period - 1), <<tr, 1>>), period)

\* a first direction that is UP below the band
FirstDirection_below(close, final_upper) == IF RLess(<<close, 1>>, final_upper) THEN 1 ELSE -1
\* a first direction that reads a close on the band as bullish
FirstDirection_tie_up(close, final_upper) == IF ~RLess(<<close, 1>>, final_upper) THEN 1 ELSE -1
\* line 319
FirstDirection(close, final_upper) == IF RLess(final_upper, <<close, 1>>) THEN 1 ELSE -1

\* a direction that also flips when the close touches the band
NextDirection_tie_flips(prev_direction, close, final_lower, final_upper) ==
    IF prev_direction = 1
    THEN IF ~RLess(final_lower, <<close, 1>>) THEN -1 ELSE 1
    ELSE IF ~RLess(<<close, 1>>, final_upper) THEN 1 ELSE -1

\* lines 321-325
NextDirection(prev_direction, close, final_lower, final_upper) ==
    IF prev_direction = 1
    THEN IF RLess(<<close, 1>>, final_lower) THEN -1 ELSE 1
    ELSE IF RLess(final_upper, <<close, 1>>) THEN 1 ELSE -1

\* Python's seq[-n:]
LastN(seq, n) == IF Len(seq) <= n THEN seq ELSE SubSeq(seq, Len(seq) - n + 1, Len(seq))

\* lines 337-341: "Keep only last 100 values"
Trimmed(s) ==
    IF Len(s.candles) > MaxHistory
    THEN [s EXCEPT !.candles = LastN(@, MaxHistory),
                   !.atr_values = LastN(@, MaxHistory),
                   !.supertrend_values = LastN(@, MaxHistory)]
    ELSE s

\* add_candle (lines 265-344); with keep_all the histories are never cut
AddCandle(s, candle, keep_all) ==
    LET candles == Append(s.candles, candle)
        n == Len(candles)
    IN  IF n < s.period
        THEN [st |-> [s EXCEPT !.candles = candles], out |-> NoOutput]
        ELSE
        LET tr == IF n > 1
                  THEN Max(candle.high - candle.low,
                           Max(Abs(candle.high - candles[n - 1].close),
                               Abs(candle.low - candles[n - 1].close)))
                  ELSE Max(candle.high - candle.low, 0)
            atr == IF Len(s.atr_values) = 0
                   THEN InitialATR(candles, s.period)
                   ELSE NextATR(s.atr_values[Len(s.atr_values)], tr, s.period)
            hl2 == Rat(candle.high + candle.low, 2)
            basic_upper == RAdd(hl2, RMulInt(atr, s.multiplier))
            basic_lower == RSub(hl2, RMulInt(atr, s.multiplier))
            first == Len(s.supertrend_values) = 0
            prev == s.supertrend_values[Len(s.supertrend_values)]
            prev_close == <<candles[n - 1].close, 1>>
            final_lower == IF first THEN basic_lower
                           ELSE IF RLess(prev.lower, basic_lower) \/ RLess(prev_close, prev.lower)
                                THEN basic_lower ELSE prev.lower
            final_upper == IF first THEN basic_upper
                           ELSE IF RLess(basic_upper, prev.upper) \/ RLess(prev.upper, prev_close)
                                THEN basic_upper ELSE prev.upper
            direction == IF first THEN FirstDirection(candle.close, final_upper)
                         ELSE NextDirection(prev.direction, candle.close, final_lower,
                                            final_upper)
            supertrend_value == IF direction = 1 THEN final_lower ELSE final_upper
            grown == [s EXCEPT !.candles = candles,
                               !.atr_values = Append(@, atr),
                               !.supertrend_values =
                                   Append(@, [upper |-> final_upper, lower |-> final_lower,
                                              value |-> supertrend_value,
                                              direction |-> direction]),
                               !.direction = direction]
        IN  [st |-> IF keep_all THEN grown ELSE Trimmed(grown),
             out |-> [defined |-> TRUE, value |-> supertrend_value,
                      signal |-> IF direction = 1 THEN "GREEN" ELSE "RED"]]

add_candle(s, candle) == AddCandle(s, candle, FALSE)

(* ---------------- initial state ---------------------------------------- *)
\* the loop task, the clock, the risk counters and the candle accumulator
InitLoop ==
    /\ tod = 0 /\ trading_day \in BOOLEAN
    /\ budget = [days |-> 1, entries |-> 0, manual |-> 0, starts |-> 0, modes |-> 0]
    /\ running = FALSE /\ pc = "off" /\ sleep_left = 0 /\ loc = NoLoc
    /\ mode = "live"
    /\ daily_trades = 0 /\ daily_pnl = 0 /\ triggered = FALSE /\ max_drawdown = 0
    /\ last_exit = None /\ elapsed = 0 /\ cct_age = 0
    /\ index_seen = FALSE /\ candle_has = FALSE
    /\ st_len = 0 /\ last_signal = "NA"
    /\ mpc = "idle" /\ mloc = NoMloc /\ m_age = 0
    /\ ev = "init"
    /\ forced = FALSE /\ force_rejected = FALSE /\ iter_closes = 0
    /\ resets_today = 0 /\ loss_hit = FALSE /\ since_close = None
    /\ opened_today = 0

\* TradingBot.__init__: no position
InitFlat ==
    /\ pos = NoPosition /\ entry_price = 0 /\ trailing_sl = None /\ highest_profit = 0
    /\ ltp = 0
    /\ peak = 0

\* the indicator object as constructed
InitIndicator ==
    /\ st = NewSuperTrend(supertrend_period, supertrend_multiplier)
    /\ st_full = NewSuperTrend(supertrend_period, supertrend_multiplier)
    /\ st_out = NoOutput /\ st_full_out = NoOutput

\* ConnectionManager.__init__
InitManager ==
    /\ active_connections = <<>>
    /\ bc = NoBroadcast

Init == InitLoop /\ InitFlat /\ InitIndicator /\ InitManager

(* ---------------- the environment -------------------------------------- *)
Age(a) == IF a = None THEN None ELSE Min(a + 1, candle_interval)
\* the same, forgetting an exit that is a whole candle interval old
RecentAge(a) == IF a = None \/ a + 1 >= candle_interval THEN None ELSE a + 1

\* one clock instant passes while the loop task is suspended; a sleep that is
\* over ends at once, an await lasts MaxAwait instants at most
Tick ==
    /\ AtSuspension
    /\ pc \in {"off", "sleep"} \/ cct_age < MaxAwait
    /\ ~(running /\ pc = "sleep" /\ sleep_left = 0)
    /\ mpc = "idle" \/ m_age < MaxAwait
    /\ tod + 1 = DayLen => budget.days < MaxDays
    /\ budget' = IF tod + 1 = DayLen THEN [budget EXCEPT !.days = @ + 1] ELSE budget
    /\ tod' = (tod + 1) % DayLen
    /\ IF tod + 1 = DayLen THEN trading_day' \in BOOLEAN ELSE trading_day' = trading_day
    /\ sleep_left' = Max(sleep_left - 1, 0)
    /\ elapsed' = IF running THEN Min(elapsed + 1, candle_interval) ELSE elapsed
    /\ cct_age' = IF pc \in {"off", "sleep"} THEN 0 ELSE cct_age + 1
    /\ m_age' = IF mpc = "idle" THEN m_age ELSE m_age + 1
    /\ last_exit' = Age(last_exit)
    /\ since_close' = RecentAge(since_close)
    /\ resets_today' = IF is_reset_minute(tod + 1) THEN resets_today ELSE 0
    /\ opened_today' = IF tod + 1 = DayLen THEN 0 ELSE opened_today
    /\ ev' = "step"
    /\ UNCHANGED <<running, pc, loc, mode, posVars, ltp, daily_trades, daily_pnl, triggered,
                   max_drawdown, loss_hit, index_seen, candle_has,
                   stVars, mpc, mloc, iterVars, calcVars>>

\* start() past its two error returns (lines 53-59): a new indicator, a new
\* loop task that has not run yet
LoopTaskCreated ==
    /\ budget.starts < MaxStarts
    /\ budget' = [budget EXCEPT !.starts = @ + 1]
    /\ running' = TRUE
    /\ st_len' = 0
    /\ pc' = "sleep" /\ sleep_left' = 0 /\ loc' = NoLoc
    /\ elapsed' = 0 /\ candle_has' = FALSE /\ cct_age' = 0
    /\ ev' = "Bot started"

\* a start that does not look at the running flag
Start_unguarded ==
    /\ AtSuspension
    /\ \E configured \in BOOLEAN :
          IF ~configured
          THEN /\ ev' = "Dhan API credentials not configured"
               /\ UNCHANGED <<budget, taskVars, elapsed, candle_has, cct_age, st_len>>
          ELSE LoopTaskCreated
    /\ UNCHANGED <<clockVars, calcVars, mode, posVars, ltp, riskVars, last_exit, index_seen,
                   last_signal, manualVars, iterVars, resets_today,
                   since_close>>

\* TradingBot.start; configured is what initialize_dhan returns: whether
\* config holds a dhan_access_token and a dhan_client_id
Start ==
    /\ AtSuspension
    /\ \E configured \in BOOLEAN :
          IF running
          THEN /\ configured
               /\ ev' = "Bot already running"
               /\ UNCHANGED <<budget, taskVars, elapsed, candle_has, cct_age, st_len>>
          ELSE IF ~configured
          THEN /\ ev' = "Dhan API credentials not configured"
               /\ UNCHANGED <<budget, taskVars, elapsed, candle_has, cct_age, st_len>>
          ELSE LoopTaskCreated
    /\ UNCHANGED <<clockVars, calcVars, mode, posVars, ltp, riskVars, last_exit, index_seen,
                   last_signal, manualVars, iterVars, resets_today,
                   since_close>>

\* TradingBot.stop: the task is cancelled at the await it is suspended in;
\* cancelling a task that has ended does nothing
Stop ==
    /\ AtSuspension
    /\ running' = FALSE
    /\ pc' = "off" /\ sleep_left' = 0 /\ loc' = NoLoc
    /\ IF running
       THEN /\ elapsed' = 0 /\ candle_has' = FALSE /\ cct_age' = 0
            /\ forced' = FALSE /\ force_rejected' = FALSE /\ iter_closes' = 0
       ELSE UNCHANGED <<elapsed, candle_has, cct_age, iterVars>>
    /\ ev' = "Bot stopped"
    /\ UNCHANGED <<clockVars, calcVars, budget, mode, posVars, ltp, riskVars, last_exit, index_seen,
                   stVars, manualVars, resets_today, since_close>>

\* the response {"status": "success", "mode": mode}
ModeSet(m) == IF m = "paper" THEN "mode paper" ELSE "mode live"

\* bot_state['mode'] = mode; the run counts the requests that change it
ModeChange(m) ==
    /\ mode # m => budget.modes < MaxModeChanges
    /\ budget' = IF mode # m THEN [budget EXCEPT !.modes = @ + 1] ELSE budget
    /\ mode' = m
    /\ ev' = ModeSet(m)

\* a mode switch that does not look at the position
set_mode_unguarded(m) ==
    /\ AtSuspension
    /\ ModeChange(m)
    /\ UNCHANGED <<clockVars, calcVars, taskVars, posVars, ltp, riskVars, last_exit, candleVars,
                   stVars, manualVars, iterVars, resets_today, since_close>>

\* POST /config/mode
set_mode(m) ==
    /\ AtSuspension
    /\ IF pos.open
       THEN /\ ev' = "Cannot change mode with open position"
            /\ UNCHANGED <<budget, mode>>
       ELSE ModeChange(m)
    /\ UNCHANGED <<clockVars, calcVars, taskVars, posVars, ltp, riskVars, last_exit, candleVars,
                   stVars, manualVars, iterVars, resets_today, since_close>>

\* squareoff() past its "No open position" return (lines 75-91)
SquareoffBegins ==
    /\ budget.manual < MaxManual
    /\ budget' = [budget EXCEPT !.manual = @ + 1]
    /\ IF mode = "paper"
       THEN /\ mpc' = "close"
            /\ mloc' = [price |-> ltp, pnl |-> PnL(ltp, entry_price), sold |-> FALSE]
       ELSE /\ mpc' = "order"
            /\ mloc' = NoMloc
    /\ m_age' = 0
    /\ ev' = "manual_squareoff"

\* a square-off that does not look for a position first
ManualSquareoff_untested ==
    /\ AtSuspension
    /\ mpc = "idle"
    /\ SquareoffBegins
    /\ UNCHANGED <<clockVars, calcVars, taskVars, mode, posVars, ltp, riskVars, last_exit, candleVars,
                   stVars, iterVars, resets_today, since_close>>

\* POST /bot/squareoff -> TradingBot.squareoff, up to its first await or to
\* its return {"status": "error", "message": "No open position"}
ManualSquareoff ==
    /\ AtSuspension
    /\ mpc = "idle"
    /\ IF ~pos.open
       THEN /\ ev' = "No open position"
            /\ UNCHANGED <<budget, manualVars>>
       ELSE SquareoffBegins
    /\ UNCHANGED <<clockVars, calcVars, taskVars, mode, posVars, ltp, riskVars, last_exit, candleVars,
                   stVars, iterVars, resets_today, since_close>>

\* the SELL order of a manual square-off returns
ManualOrderDone ==
    /\ AtSuspension
    /\ mpc = "order"
    /\ \E accepted \in BOOLEAN :
          /\ IF accepted /\ pos.open
             THEN /\ mpc' = "close"
                  /\ mloc' = [price |-> ltp, pnl |-> PnL(ltp, entry_price), sold |-> TRUE]
             ELSE /\ mpc' = "idle"
                  /\ mloc' = NoMloc
    /\ m_age' = 0
    /\ ev' = "step"
    /\ UNCHANGED <<clockVars, calcVars, budget, taskVars, mode, posVars, ltp, riskVars, last_exit, candleVars,
                   stVars, iterVars, resets_today, since_close>>

\* update_trade_exit of a manual square-off returns or raises
ManualCloseDone ==
    /\ AtSuspension
    /\ mpc = "close"
    /\ mpc' = "idle"
    /\ mloc' = NoMloc
    /\ m_age' = 0
    /\ \E ok \in BOOLEAN :
          /\ IF ok
             THEN /\ CloseCommit(mloc.pnl, "Force Square-off")
             ELSE /\ ev' = "step"
                  /\ UNCHANGED <<posVars, riskVars, since_close>>
    /\ UNCHANGED <<clockVars, calcVars, budget, taskVars, mode, ltp, last_exit, candleVars, stVars, iterVars,
                   resets_today>>

(* ---------------- run_loop, one action per run of non-yielding code ---- *)
IterationStarts == running /\ pc = "sleep" /\ sleep_left = 0

\* lines 142-149: the sleep is over and the clock reads 09:15
DailyReset ==
    /\ IterationStarts
    /\ is_reset_minute(tod)
    /\ daily_trades' = 0
    /\ daily_pnl' = 0
    /\ triggered' = FALSE
    /\ max_drawdown' = 0
    /\ loss_hit' = FALSE
    /\ opened_today' = opened_today
    /\ last_exit' = None
    /\ resets_today' = Min(resets_today + 1, 2)
    /\ pc' = "force" /\ loc' = NoLoc
    /\ cct_age' = 0
    /\ ev' = "daily_reset"
    /\ UNCHANGED <<clockVars, calcVars, budget, running, sleep_left, mode, posVars, ltp, elapsed, index_seen,
                   candle_has, stVars, manualVars, iterVars, since_close>>

NoDailyReset ==
    /\ IterationStarts
    /\ ~is_reset_minute(tod)
    /\ pc' = "force" /\ loc' = NoLoc
    /\ cct_age' = 0
    /\ ev' = "iteration"
    /\ UNCHANGED <<clockVars, calcVars, budget, running, sleep_left, mode, posVars, ltp, riskVars, last_exit,
                   elapsed, index_seen, candle_has, stVars, manualVars,
                   iterVars, resets_today, since_close>>

\* lines 151-153 and squareoff() up to its first await (lines 70-91)
ForceSquareoff ==
    /\ pc = "force"
    /\ IF should_force_squareoff(tod) /\ pos.open
       THEN /\ forced' = TRUE
            /\ IF mode = "paper"
               THEN /\ pc' = "close_wait"
                    /\ loc' = [NoLoc EXCEPT !.price = ltp, !.pnl = PnL(ltp, entry_price),
                                             !.reason = "Force Square-off", !.cont = "sq"]
               ELSE /\ pc' = "sq_order"
                    /\ loc' = NoLoc
            /\ ev' = "force_call"
       ELSE /\ pc' = "gate"
            /\ ev' = "step"
            /\ UNCHANGED <<forced, loc>>
    /\ UNCHANGED <<clockVars, calcVars, budget, running, sleep_left, mode, posVars, ltp, riskVars, last_exit,
                   candleVars, stVars, manualVars, force_rejected, iter_closes,
                   resets_today, since_close>>

\* squareoff(), live mode: place_order(SELL) returns (lines 87-94)
SquareoffOrderDone ==
    /\ pc = "sq_order"
    /\ \E accepted \in BOOLEAN :
          /\ IF accepted
             THEN IF pos.open
                  THEN /\ pc' = "close_wait"
                       /\ loc' = [NoLoc EXCEPT !.price = ltp, !.pnl = PnL(ltp, entry_price),
                                                !.reason = "Force Square-off", !.cont = "sq",
                                                !.sold = TRUE]
                       /\ ev' = "step"
                       /\ UNCHANGED force_rejected
                  ELSE /\ pc' = "gate"
                       /\ ev' = "force_gone"
                       /\ UNCHANGED <<loc, force_rejected>>
             ELSE /\ pc' = "gate"
                  /\ force_rejected' = TRUE
                  /\ ev' = "force_rejected"
                  /\ UNCHANGED loc
    /\ UNCHANGED <<clockVars, calcVars, budget, running, sleep_left, mode, posVars, ltp, riskVars, last_exit,
                   candleVars, stVars, manualVars, forced, iter_closes,
                   resets_today, since_close>>

\* close_position: update_trade_exit returns or raises; then the caller goes on
\* (squareoff: line 153; trailing stop: lines 215-217; reversal: lines 229-234)
CloseDone ==
    /\ pc = "close_wait"
    /\ \E ok \in BOOLEAN :
          /\ IF ok
             THEN /\ CloseCommit(loc.pnl, loc.reason)
                  /\ iter_closes' = Min(iter_closes + 1, 2)
                  /\ UNCHANGED <<sleep_left, forced, force_rejected>>
                  /\ CASE loc.cont = "sq" ->
                            /\ pc' = "gate" /\ loc' = NoLoc
                            /\ UNCHANGED <<last_exit, elapsed, candle_has>>
                       [] loc.cont = "sl" ->
                            /\ pc' = "trade" /\ loc' = [NoLoc EXCEPT !.signal = loc.signal]
                            /\ last_exit' = Min(cct_age, candle_interval)
                            /\ UNCHANGED <<elapsed, candle_has>>
                       [] loc.cont = "rev" ->
                            /\ pc' = "tail" /\ loc' = NoLoc
                            /\ last_exit' = Min(cct_age, candle_interval)
                            /\ ResetCandle
             ELSE /\ LoopException
                  /\ UNCHANGED <<posVars, riskVars, since_close, last_exit,
                                 elapsed, candle_has>>
    /\ UNCHANGED <<clockVars, calcVars, budget, running, mode, ltp, cct_age, index_seen, stVars, manualVars,
                   resets_today>>

\* lines 155-162: idle outside market hours or after the loss limit
Gate ==
    /\ pc = "gate"
    /\ IF ~is_market_open(tod, trading_day) \/ triggered
       THEN /\ pc' = "sleep" /\ sleep_left' = SleepIdle
            /\ forced' = FALSE /\ force_rejected' = FALSE /\ iter_closes' = 0
            /\ ev' = "idle"
       ELSE /\ pc' = "fetch" /\ sleep_left' = sleep_left
            /\ ev' = "step"
            /\ UNCHANGED iterVars
    /\ UNCHANGED <<clockVars, calcVars, budget, running, loc, mode, posVars, ltp, riskVars, last_exit,
                   candleVars, stVars, manualVars, resets_today, since_close>>

\* lines 164-194: fetch the index (and option) price, fold it into the candle
Fetch ==
    /\ pc = "fetch"
    /\ \E index_ok \in BOOLEAN, option_ltp \in 0..MaxPrice :
          /\ (option_ltp > 0) => (pos.open /\ pos.security = "REAL")
          /\ index_seen' = (index_seen \/ index_ok)
          /\ candle_has' = (candle_has \/ index_seen \/ index_ok)
          /\ ltp' = IF option_ltp > 0 THEN option_ltp ELSE ltp
          /\ ev' = IF index_ok THEN "step" ELSE "fetch_failed"
    /\ pc' = "candle"
    /\ UNCHANGED <<clockVars, calcVars, budget, running, sleep_left, loc, mode, posVars, riskVars, last_exit,
                   elapsed, cct_age, stVars, manualVars, iterVars, resets_today,
                   since_close>>

\* lines 196-208: candle boundary, SuperTrend.add_candle
\* The signal is a function of the index prices the broker reported; "ZERO"
\* stands for an output whose value is 0, which "if st_value and signal" drops.
Candle ==
    /\ pc = "candle"
    /\ IF elapsed < candle_interval
       THEN /\ pc' = "tail"
            /\ ev' = "step"
            /\ UNCHANGED <<loc, elapsed, candle_has, cct_age, stVars>>
       ELSE /\ cct_age' = 0
            /\ IF ~candle_has
               THEN /\ ResetCandle
                    /\ pc' = "tail"
                    /\ ev' = "step"
                    /\ UNCHANGED <<loc, stVars>>
               ELSE /\ st_len' = Min(st_len + 1, supertrend_period)
                    /\ IF st_len + 1 < supertrend_period
                       THEN /\ ResetCandle
                            /\ pc' = "tail"
                            /\ ev' = "step"
                            /\ UNCHANGED <<loc, last_signal>>
                       ELSE \E sig \in {"GREEN", "RED", "ZERO"} :
                               /\ IF sig = "ZERO"
                                  THEN /\ ResetCandle
                                       /\ pc' = "tail"
                                       /\ ev' = "step"
                                       /\ UNCHANGED <<loc, last_signal>>
                                  ELSE /\ last_signal' = sig
                                       /\ loc' = [NoLoc EXCEPT !.signal = sig]
                                       /\ pc' = "slcheck"
                                       /\ ev' = "signal"
                                       /\ UNCHANGED <<elapsed, candle_has>>
    /\ UNCHANGED <<clockVars, calcVars, budget, running, sleep_left, mode, posVars, ltp, riskVars, last_exit,
                   index_seen, manualVars, iterVars, resets_today, since_close>>

\* lines 210-217: check_trailing_sl_on_close (lines 318-333)
TrailingCheck ==
    /\ pc = "slcheck"
    /\ IF pos.open
       THEN LET profit == ltp - entry_price
                hp == HighestProfitAfter(highest_profit, profit)
                sl == TrailingSlAfter(trailing_sl, entry_price, hp, profit)
            IN  /\ highest_profit' = hp
                /\ trailing_sl' = sl
                /\ IF is_breached(sl, ltp)
                   THEN /\ pc' = "close_wait"
                        /\ loc' = [loc EXCEPT !.price = ltp, !.pnl = PnL(ltp, entry_price),
                                              !.reason = "Trailing SL Hit", !.cont = "sl"]
                        /\ ev' = "exit_sl"
                   ELSE /\ pc' = "trade"
                        /\ ev' = IF trailing_sl # None THEN "trail_again" ELSE "step"
                        /\ UNCHANGED loc
       ELSE /\ pc' = "trade"
            /\ ev' = "step"
            /\ UNCHANGED <<loc, highest_profit, trailing_sl>>
    /\ UNCHANGED <<clockVars, calcVars, budget, running, sleep_left, mode, pos, entry_price, ltp, riskVars,
                   last_exit, candleVars, stVars, manualVars, iterVars,
                   resets_today, since_close>>

\* lines 219-225
can_trade == last_exit = None \/ ~(last_exit - cct_age < candle_interval)

\* an exit on the signal that agrees with the position
is_reversal_agreeing(option_type, signal) ==
    \/ option_type = "CE" /\ signal = "GREEN"
    \/ option_type = "PE" /\ signal = "RED"

\* process_signal_on_close, lines 343-358
is_reversal(option_type, signal) ==
    \/ option_type = "CE" /\ signal = "RED"
    \/ option_type = "PE" /\ signal = "GREEN"

\* an entry gate without the "position exists" return
entry_allowed_over_position ==
    can_take_new_trade(tod) /\ ~(daily_trades >= max_trades_per_day)
\* an entry gate that lets one trade more through
entry_allowed_one_more ==
    ~pos.open /\ can_take_new_trade(tod) /\ ~(daily_trades > max_trades_per_day)
\* process_signal_on_close, lines 360-368
\* line 371: the option type an entry at this signal buys
option_type_for(signal) == IF signal = "RED" THEN "PE" ELSE "CE"

entry_allowed == ~pos.open /\ can_take_new_trade(tod) /\ ~(daily_trades >= max_trades_per_day)

\* lines 219-234 with process_signal_on_close (lines 335-377) up to its first await
Trade ==
    /\ pc = "trade"
    /\ IF ~can_trade
       THEN /\ ResetCandle /\ pc' = "tail" /\ loc' = NoLoc
            /\ ev' = "cool_down"
            /\ UNCHANGED budget
       ELSE IF pos.open /\ is_reversal(pos.option_type, loc.signal)
       THEN /\ pc' = "close_wait"
            /\ loc' = [loc EXCEPT !.price = ltp, !.pnl = PnL(ltp, entry_price),
                                  !.reason = "SuperTrend Reversal", !.cont = "rev"]
            /\ ev' = "exit_reversal"
            /\ UNCHANGED <<budget, elapsed, candle_has>>
       ELSE IF entry_allowed
       THEN /\ budget.entries < MaxEntries
            /\ budget' = [budget EXCEPT !.entries = @ + 1]
            /\ pc' = "enter_lookup"
            /\ loc' = [NoLoc EXCEPT !.option_type = option_type_for(loc.signal)]
            /\ ev' = "decide_enter"
            /\ UNCHANGED <<elapsed, candle_has>>
       ELSE /\ ResetCandle /\ pc' = "tail" /\ loc' = NoLoc
            /\ ev' = "no_entry"
            /\ UNCHANGED budget
    /\ UNCHANGED <<clockVars, calcVars, running, sleep_left, mode, posVars, ltp, riskVars, last_exit,
                   cct_age, index_seen, stVars, manualVars, iterVars,
                   resets_today, since_close>>

\* enter_position, lines 387-443: expiry, security id and option price came back
EnterLookupDone ==
    /\ pc = "enter_lookup"
    /\ \E found \in BOOLEAN, option_ltp \in 0..MaxPrice, simulated \in Prices :
          /\ (option_ltp > 0) => found
          /\ (simulated # 1) => (mode = "paper" /\ option_ltp = 0)
          /\ IF mode = "paper"
             THEN /\ StorePosition(loc.option_type,
                                   IF found THEN "REAL" ELSE "SIM",
                                   IF option_ltp > 0 THEN option_ltp ELSE simulated,
                                   FALSE)
                  /\ UNCHANGED <<elapsed, candle_has>>
             ELSE IF ~found
                  THEN EntryAborted("enter_no_security")
                  ELSE /\ pc' = "enter_order"
                       /\ loc' = [loc EXCEPT !.security = "REAL", !.price = option_ltp]
                       /\ ev' = "step"
                       /\ UNCHANGED <<posVars, ltp, daily_trades, opened_today, elapsed,
                                      candle_has>>
    /\ UNCHANGED <<clockVars, calcVars, budget, running, sleep_left, mode, daily_pnl, triggered, max_drawdown,
                   loss_hit, last_exit, cct_age, index_seen, stVars, manualVars, iterVars,
                   resets_today, since_close>>

\* enter_position, lines 445-475: place_order(BUY) returns
EnterOrderDone ==
    /\ pc = "enter_order"
    /\ \E accepted \in BOOLEAN, filled_price \in 0..MaxPrice :
          /\ (filled_price > 0) => accepted
          /\ IF accepted
             THEN /\ StorePosition(loc.option_type, loc.security,
                                   IF filled_price > 0 THEN filled_price ELSE loc.price,
                                   TRUE)
                  /\ UNCHANGED <<elapsed, candle_has>>
             ELSE EntryAborted("enter_rejected")
    /\ UNCHANGED <<clockVars, calcVars, budget, running, sleep_left, mode, daily_pnl, triggered, max_drawdown,
                   loss_hit, last_exit, cct_age, index_seen, stVars, manualVars, iterVars,
                   resets_today, since_close>>

\* enter_position, lines 477-491: save_trade returns or raises
EnterSaveDone ==
    /\ pc = "enter_save"
    /\ \E ok \in BOOLEAN :
          /\ IF ok
             THEN /\ ResetCandle /\ pc' = "tail" /\ loc' = NoLoc
                  /\ ev' = "entered"
                  /\ UNCHANGED <<sleep_left, iterVars>>
             ELSE /\ LoopException
                  /\ UNCHANGED <<elapsed, candle_has>>
    /\ UNCHANGED <<clockVars, calcVars, budget, running, mode, posVars, ltp, riskVars, last_exit, cct_age,
                   index_seen, stVars, manualVars, resets_today, since_close>>

\* lines 236-269: paper simulation of the premium, broadcast, sleep(1)
BroadcastAndSleep ==
    /\ pc = "tail"
    /\ \E simulated_ltp \in Prices :
          IF pos.open /\ pos.security = "SIM" /\ index_seen
          THEN ltp' = simulated_ltp
          ELSE simulated_ltp = 1 /\ ltp' = ltp
    /\ pc' = "sleep" /\ sleep_left' = SleepTick
    /\ forced' = FALSE /\ force_rejected' = FALSE /\ iter_closes' = 0
    /\ ev' = "broadcast"
    /\ UNCHANGED <<clockVars, calcVars, budget, running, loc, mode, posVars, riskVars, last_exit, candleVars,
                   stVars, manualVars, resets_today, since_close>>

(* ---------------- specification ---------------------------------------- *)
Next ==
    \/ Tick
    \/ Start
    \/ Stop
    \/ \E m \in {"paper", "live"} : set_mode(m)
    \/ ManualSquareoff
    \/ ManualOrderDone
    \/ ManualCloseDone
    \/ DailyReset
    \/ NoDailyReset
    \/ ForceSquareoff
    \/ SquareoffOrderDone
    \/ CloseDone
    \/ Gate
    \/ Fetch
    \/ Candle
    \/ TrailingCheck
    \/ Trade
    \/ EnterLookupDone
    \/ EnterOrderDone
    \/ EnterSaveDone
    \/ BroadcastAndSleep

Spec == Init /\ [][Next]_vars

(* ---------------- the trailing stop on its own ------------------------- *)
\* A position has just been stored at some premium; every candle close then
\* calls check_trailing_sl_on_close with the premium of that moment.  The loop
\* around it is left out: its variables stay as constructed.
Premiums == 1..MaxPremium

InitTrail ==
    /\ InitLoop /\ InitIndicator /\ InitManager
    /\ trading_day
    /\ \E price \in Premiums :
          /\ pos = [open |-> TRUE, option_type |-> "CE", security |-> "REAL", live |-> TRUE]
          /\ entry_price = price
          /\ ltp = price
    /\ trailing_sl = None /\ highest_profit = 0
    /\ peak = 0

\* check_trailing_sl_on_close(current_ltp), up to the await in close_position
check_trailing_sl_on_close(current_ltp) ==
    /\ pos.open
    /\ ev # "exit_sl"
    /\ ltp' = current_ltp
    /\ peak' = Max(peak, current_ltp - entry_price)
    /\ LET profit == current_ltp - entry_price
           hp == HighestProfitAfter(highest_profit, profit)
           sl == TrailingSlAfter(trailing_sl, entry_price, hp, profit)
       IN  /\ highest_profit' = hp
           /\ trailing_sl' = sl
           /\ IF is_breached(sl, current_ltp)
              THEN /\ loc' = [NoLoc EXCEPT !.price = current_ltp,
                                           !.pnl = PnL(current_ltp, entry_price),
                                           !.reason = "Trailing SL Hit", !.cont = "sl"]
                   /\ ev' = "exit_sl"
              ELSE /\ ev' = "trail_kept"
                   /\ UNCHANGED loc
    /\ UNCHANGED <<clockVars, budget, running, pc, sleep_left, mode, pos, entry_price, riskVars,
                   last_exit, candleVars, stVars, manualVars, iterVars, resets_today,
                   since_close, st, st_out, st_full, st_full_out, managerVars>>

\* close_position after the await, for the exit the check decided
TrailClose ==
    /\ pos.open
    /\ ev = "exit_sl"
    /\ CloseCommit(loc.pnl, loc.reason)
    /\ loc' = NoLoc
    /\ peak' = 0
    /\ UNCHANGED <<clockVars, budget, running, pc, sleep_left, mode, ltp, last_exit, candleVars,
                   stVars, manualVars, iterVars, resets_today, st, st_out, st_full,
                   st_full_out, managerVars>>

NextTrail ==
    \/ \E current_ltp \in Premiums : check_trailing_sl_on_close(current_ltp)
    \/ TrailClose

SpecTrail == InitTrail /\ [][NextTrail]_vars

(* ---------------- the indicator on its own ----------------------------- *)
\* One SuperTrend object is fed candle after candle, as run_loop does at the
\* candle boundaries; next to it runs the same computation on histories that
\* are never cut.  The loop around it is left out.
IndexPrices == 1..MaxIndex
\* what the accumulator of run_loop can hand over: low <= close <= high
Candles ==
    {c \in [high : IndexPrices, low : IndexPrices, close : IndexPrices] :
        c.low <= c.close /\ c.close <= c.high}
\* the configured pair, a period longer than the kept history, the defaults
Configurations ==
    {<<supertrend_period, supertrend_multiplier>>,
     <<MaxHistory + 2, supertrend_multiplier>>,
     <<DefaultPeriod, DefaultMultiplier>>}
\* candles the indicator was fed since it was constructed
Fed == Len(st_full.candles)

InitSuperTrend ==
    /\ InitLoop /\ InitFlat /\ InitManager
    /\ trading_day
    /\ \E cfg \in Configurations :
          /\ st = NewSuperTrend(cfg[1], cfg[2])
          /\ st_full = NewSuperTrend(cfg[1], cfg[2])
    /\ st_out = NoOutput /\ st_full_out = NoOutput

\* run_loop line 201: st_value, signal = self.supertrend.add_candle(high, low, close)
FeedCandle(candle) ==
    /\ Fed < MaxCandles
    /\ st' = add_candle(st, candle).st
    /\ st_out' = add_candle(st, candle).out
    /\ st_full' = AddCandle(st_full, candle, TRUE).st
    /\ st_full_out' = AddCandle(st_full, candle, TRUE).out
    /\ UNCHANGED <<clockVars, budget, taskVars, mode, posVars, ltp, riskVars, last_exit,
                   candleVars, stVars, manualVars, ev, iterVars, resets_today, since_close,
                   peak, managerVars>>

NextSuperTrend == \E candle \in Candles : FeedCandle(candle)

SpecSuperTrend == InitSuperTrend /\ [][NextSuperTrend]_vars

(* ---------------- the connection manager on its own -------------------- *)
\* Websockets connect and disconnect (the /ws endpoint) while broadcast walks
\* the list; every step of broadcast runs from one await of send_json to the
\* next.  The loop around it is left out.
Connections == 1..MaxConnections
botVars == <<clockVars, budget, taskVars, mode, posVars, ltp, riskVars, last_exit,
             candleVars, stVars, manualVars, ev, iterVars, resets_today, since_close,
             peak, st, st_out, st_full, st_full_out>>
Connected == {active_connections[k] : k \in 1..Len(active_connections)}
\* list.remove(websocket)
Remove(seq, c) == SelectSeq(seq, LAMBDA x : x # c)

\* "for connection in self.active_connections": the list iterator holds an
\* index into the list as it is now
NextConnection(frame) ==
    IF frame.i < Len(active_connections)
    THEN [frame EXCEPT !.pc = "send", !.i = @ + 1,
                       !.connection = active_connections[frame.i + 1]]
    ELSE [frame EXCEPT !.pc = "returned", !.connection = 0]

\* ConnectionManager.connect: a new websocket is accepted and appended
connect(websocket) ==
    /\ websocket \notin Connected
    /\ websocket \notin bc.received \cup bc.failed \cup {bc.connection}
    /\ active_connections' = Append(active_connections, websocket)
    /\ UNCHANGED <<bc, botVars>>

\* ConnectionManager.disconnect, called by the endpoint of that websocket
disconnect(websocket) ==
    /\ websocket \in Connected
    /\ active_connections' = Remove(active_connections, websocket)
    /\ UNCHANGED <<bc, botVars>>

\* ConnectionManager.broadcast is called, up to its first await
broadcast ==
    /\ bc.pc \in {"idle", "returned"}
    /\ bc' = NextConnection([NoBroadcast EXCEPT !.first = Connected])
    /\ UNCHANGED <<active_connections, botVars>>

\* send_json returns or raises; the loop goes on to the next connection
send_json_done ==
    /\ bc.pc = "send"
    /\ \E ok \in BOOLEAN :
          bc' = NextConnection(IF ok
                               THEN [bc EXCEPT !.received = @ \cup {bc.connection}]
                               ELSE [bc EXCEPT !.failed = @ \cup {bc.connection}])
    /\ UNCHANGED <<active_connections, botVars>>

NextBroadcast ==
    \/ \E websocket \in Connections : connect(websocket)
    \/ \E websocket \in Connections : disconnect(websocket)
    \/ broadcast
    \/ send_json_done

SpecBroadcast == Init /\ [][NextBroadcast]_vars

(* ---------------- the loop through a later day ------------------------- *)
\* Midnight of a trading day, the bot started on an earlier day and left
\* running: the loop task is in a sleep(5) it began before midnight, the
\* candle clock has long passed the interval, the indicator holds candles of
\* the earlier day (the daily reset does not reset it), yesterday's trade count
\* stands until 09:15, and yesterday's position was squared off.
InitDay ==
    /\ tod = 0 /\ trading_day = TRUE
    /\ budget = [days |-> 1, entries |-> 0, manual |-> 0, starts |-> 1, modes |-> 0]
    /\ running = TRUE /\ pc = "sleep" /\ sleep_left \in 0..(SleepIdle - 1) /\ loc = NoLoc
    /\ mode \in {"paper", "live"}
    /\ daily_trades \in 0..max_trades_per_day
    /\ daily_pnl = 0 /\ triggered = FALSE /\ max_drawdown = 0
    /\ last_exit = None /\ elapsed = candle_interval /\ cct_age = 0
    /\ index_seen = TRUE /\ candle_has \in BOOLEAN
    /\ st_len = supertrend_period /\ last_signal \in {"GREEN", "RED"}
    /\ mpc = "idle" /\ mloc = NoMloc /\ m_age = 0
    /\ ev = "init"
    /\ forced = FALSE /\ force_rejected = FALSE /\ iter_closes = 0
    /\ resets_today = 0 /\ loss_hit = FALSE /\ since_close = None
    /\ opened_today = 0
    /\ InitFlat /\ InitIndicator /\ InitManager

\* run_loop and the passing of time, no request handler
NextDay ==
    \/ Tick
    \/ DailyReset
    \/ NoDailyReset
    \/ ForceSquareoff
    \/ SquareoffOrderDone
    \/ CloseDone
    \/ Gate
    \/ Fetch
    \/ Candle
    \/ TrailingCheck
    \/ Trade
    \/ EnterLookupDone
    \/ EnterOrderDone
    \/ EnterSaveDone
    \/ BroadcastAndSleep

SpecDay == InitDay /\ [][NextDay]_vars

(* ---------------- properties ------------------------------------------- *)
InMarketHours == T_OPEN <= tod /\ tod <= T_CLOSE /\ trading_day

\* C1: a position is stored only when none exists: whenever enter_position is
\* under way, up to the step that stores the position, current_position is empty.
C1_StoreOnlyWhenFlat == pc \in {"enter_lookup", "enter_order"} => ~pos.open
\* a position has just been stored
C1_Witness == ev = "enter_store" /\ pos.open /\ pc = "enter_save"

\* C2 (as amended): after the square-off step of an iteration that reads the
\* clock at or after 15:25, a position is still open only if the broker
\* refused the SELL order; when the order went through (or in paper mode) the
\* position is closed with the reason 'Force Square-off'.
C2_ForceSquareoffUnlessRejected ==
    (pc = "gate" /\ tod >= T_SQUAREOFF) =>
        /\ pos.open => force_rejected
        /\ (forced /\ ~force_rejected) =>
              (~pos.open /\ ev \in {"Force Square-off", "force_gone"})
\* a live position was closed by the loop's square-off
C2_Witness ==
    /\ pc = "gate" /\ forced /\ ~force_rejected /\ mode = "live"
    /\ ~pos.open /\ ev = "Force Square-off" /\ iter_closes = 1
\* C2 as stated: the position is closed in that iteration, in both modes
C2_AsStated == (pc = "gate" /\ tod >= T_SQUAREOFF) => ~pos.open

C4_NoEntryAfterLossLimit == ev = "decide_enter" => ~loss_hit
\* the loss limit alone keeps an otherwise eligible iteration idle
C4_Witness ==
    /\ ev = "idle" /\ loss_hit /\ InMarketHours /\ tod < T_CUTOFF
    /\ ~pos.open /\ daily_trades < max_trades_per_day

\* C5: daily_trades never exceeds max_trades_per_day: an entry is decided only
\* below the cap and the store adds exactly one.
C5_TradesWithinCap ==
    /\ [](/\ daily_trades <= max_trades_per_day
          /\ pc \in {"enter_lookup", "enter_order"} => daily_trades < max_trades_per_day)
    /\ [][ev' = "enter_store" => daily_trades' = daily_trades + 1]_vars
\* the cap alone refuses an entry
C5_Witness ==
    /\ ev = "no_entry" /\ ~pos.open /\ tod < T_CUTOFF
    /\ daily_trades = max_trades_per_day

\* C6 as stated: after any exit, no entry is decided before a whole candle
\* interval has passed.
C6_CoolDownAfterEveryExit == ev = "decide_enter" => since_close = None

\* C7 as stated: the daily reset is applied at most once per day.
C7_ResetOncePerDay == resets_today <= 1

\* C8 as stated: the daily reset leaves the counters cleared and the
\* SuperTrend indicator empty.
C8_ResetClearsIndicator ==
    ev = "daily_reset" =>
        /\ daily_trades = 0 /\ daily_pnl = 0 /\ ~triggered /\ max_drawdown = 0
        /\ last_exit = None
        /\ st_len = 0

\* C9: an entry is decided only in market hours, before the 15:20 cutoff,
\* below the trade cap, with the loss limit not triggered, with no cool-down
\* pending and with no position open.
C9_EntryPreconditions ==
    ev = "decide_enter" =>
        /\ InMarketHours
        /\ tod < T_CUTOFF
        /\ daily_trades < max_trades_per_day
        /\ ~triggered
        /\ last_exit = None \/ last_exit - cct_age >= candle_interval
        /\ ~pos.open
\* an entry has just been decided
C9_Witness == ev = "decide_enter" /\ pc = "enter_lookup" /\ last_exit # None

\* C10 (as amended): the loop closes a position at most once per iteration; a
\* reversal exit is taken only when the trailing stop is not breached, and
\* at or after 15:25 a trailing-stop or reversal exit is taken only after
\* the broker refused the square-off's SELL order.
C10_ExitPriority ==
    /\ iter_closes <= 1
    /\ ev = "exit_reversal" => (trailing_sl = None \/ ltp > trailing_sl)
    /\ (ev \in {"exit_sl", "exit_reversal"} /\ tod >= T_SQUAREOFF) => force_rejected
\* stop and reversal hold at the same candle close: the stop is the reason
C10_Witness ==
    /\ ev = "exit_sl" /\ pc = "close_wait" /\ loc.reason = "Trailing SL Hit"
    /\ is_reversal(pos.option_type, loc.signal)
\* C10 as stated: while the square-off condition holds no lower-priority exit is taken
C10_AsStated == ev \in {"exit_sl", "exit_reversal"} => tod < T_SQUAREOFF

\* C11: every step that closes the open position adds exactly
\* (exit_price - entry_price) * order_qty * lot_size to daily_pnl, and leaves
\* daily_max_loss_triggered true iff it was true before or the new daily_pnl
\* is strictly below -daily_max_loss.
C11_CloseAccounting ==
    [][(pos.open /\ ~pos'.open) =>
          LET exit_price == IF mpc = "close" /\ mpc' = "idle" THEN mloc.price ELSE loc.price
          IN  /\ daily_pnl' = daily_pnl + (exit_price - entry_price) * order_qty * lot_size
              /\ triggered' = (triggered \/ daily_pnl' < -daily_max_loss)]_vars
\* a close has left daily_pnl exactly at -daily_max_loss and the flag unset
C11_Witness ==
    /\ ev \in {"Trailing SL Hit", "SuperTrend Reversal", "Force Square-off"}
    /\ ~pos.open /\ daily_pnl = -daily_max_loss /\ ~triggered

\* C12: while a position is open the trailing stop is unset exactly as long as
\* no check saw a profit of trail_start_profit or more; once set it equals
\* entry_price + trail_step * floor((highest_profit - trail_start_profit) /
\* trail_step), where highest_profit is the largest profit the checks saw since
\* the entry; and a check that finds the price at or below the stop exits.
C12_TrailingSlFormula ==
    pos.open =>
        /\ highest_profit = peak
        /\ (trailing_sl = None) <=> (highest_profit < trail_start_profit)
        /\ trailing_sl # None =>
              trailing_sl = entry_price
                  + trail_step * ((highest_profit - trail_start_profit) \div trail_step)
        /\ (trailing_sl # None /\ ltp <= trailing_sl) => ev = "exit_sl"
\* the stop stands one step above the entry, the price fell back below it
\* while still above the entry, and the check exits
C12_Witness ==
    /\ pos.open /\ ev = "exit_sl"
    /\ trailing_sl = entry_price + trail_step
    /\ highest_profit >= trail_start_profit + trail_step
    /\ entry_price < ltp /\ ltp < trailing_sl

\* C13 as stated: an iteration that ends with a position open and that crossed
\* no candle boundary has fed the premium it fetched to the trailing-stop
\* ratchet, so highest_profit is at least the profit at that premium.
C13_RatchetEveryTick ==
    (ev = "broadcast" /\ pos.open /\ pos.security = "REAL" /\ elapsed > 0) =>
        highest_profit >= ltp - entry_price

\* C14 as stated: add_candle gives no output for each of the first period - 1
\* candles and a defined output for the period-th candle and every candle
\* after it; the ATR of the period-th candle is the mean of the true ranges
\* of the first `period` candles.
C14_WarmUp ==
    /\ st_out.defined <=> (Fed >= st.period)
    /\ Fed = st.period =>
          st.atr_values[Len(st.atr_values)]
              = Rat(SumTrueRanges(st_full.candles, 1, st.period), st.period)

\* the indicator was fed nothing but one flat candle (high = low = close)
IdenticalFlatCandles ==
    /\ Fed >= 1
    /\ st_full.candles[1].high = st_full.candles[1].low
    /\ st_full.candles[1].high = st_full.candles[1].close
    /\ \A i \in 1..Fed : st_full.candles[i] = st_full.candles[1]

\* C15 (as amended): after `period` identical flat candles the call for the
\* period-th one returns the candles' price as value with direction DOWN
\* (signal RED): the bands collapse onto the price and close > final_upper
\* is false.
C15_FlatCandlesGiveRed ==
    (Fed = st.period /\ IdenticalFlatCandles) =>
        /\ st_out.defined
        /\ st_out.value = <<st_full.candles[1].close, 1>>
        /\ st_out.signal = "RED"
\* period 7, multiplier 4, seven identical flat candles
C15_Witness ==
    /\ st.period = DefaultPeriod /\ st.multiplier = DefaultMultiplier
    /\ Fed = DefaultPeriod /\ IdenticalFlatCandles
    /\ st_out.defined /\ st.atr_values = <<(<<0, 1>>)>>
\* C15 as stated: the seventh call returns the price with direction UP
C15_AsStated ==
    (st.period = DefaultPeriod /\ st.multiplier = DefaultMultiplier
        /\ Fed = DefaultPeriod /\ IdenticalFlatCandles) =>
        /\ st_out.value = <<st_full.candles[1].close, 1>>
        /\ st_out.signal = "GREEN"

\* C16 as stated: for every candle sequence and every period, each call of the
\* indicator that cuts its histories returns what the same computation on
\* uncut histories returns.
C16_TrimPreservesOutput == st_out = st_full_out

\* C17 as stated: a fetch that fails contributes no sample, so it leaves an
\* empty candle accumulator empty (and an interval of failed fetches ends
\* with no candle for the indicator).
C17_FailedFetchAddsNoSample ==
    [][(pc = "fetch" /\ ev' = "fetch_failed") => (candle_has' = candle_has)]_vars

\* the step just taken ended an iteration of run_loop
IterationEnded == pc = "sleep" /\ ev \in {"broadcast", "idle", "exception"}

\* C18 as stated: every iteration publishes one snapshot before it ends, the
\* idle ones included.
C18_OneSnapshotPerIteration == IterationEnded => ev = "broadcast"

\* C19: an exception in an iteration leaves the loop running and asleep for
\* the back-off; a sleeping loop goes on to a new iteration unless it is
\* stopped; and only stop() makes running false.
C19_ExceptionKeepsLoopRunning ==
    /\ [](ev = "exception" => (running /\ pc = "sleep" /\ sleep_left = SleepIdle))
    /\ [][(pc = "sleep" /\ pc' # "sleep") =>
             (IF running' THEN pc' = "force" ELSE pc' = "off")]_vars
    /\ [][(running /\ ~running') => (pc' = "off" /\ ev' = "Bot stopped")]_vars
    /\ [](running <=> pc # "off")
\* save_trade raised after the position was stored: the loop is still there
C19_Witness ==
    /\ ev = "exception" /\ running /\ pc = "sleep" /\ sleep_left = SleepIdle
    /\ pos.open

\* C20: the step in which the BUY order comes back rejected changes neither
\* the position, entry_price, trailing_sl, highest_profit, daily_trades nor
\* current_option_ltp, and does not go on to save_trade.
C20_RejectedOrderChangesNothing ==
    [][ev' = "enter_rejected" =>
          /\ pc = "enter_order" /\ pc' # "enter_save"
          /\ ~pos'.open
          /\ UNCHANGED <<pos, entry_price, trailing_sl, highest_profit, daily_trades, ltp>>]_vars
\* the first order of the day was rejected
C20_Witness ==
    /\ ev = "enter_rejected" /\ pc = "tail"
    /\ ~pos.open /\ daily_trades = 0 /\ entry_price = 0 /\ trailing_sl = None

\* C21 (as amended): in live mode an entry whose security id cannot be
\* resolved is given up: that step opens no position and changes neither
\* entry_price, daily_trades nor current_option_ltp, and no live position
\* ever carries a simulated security id.  (In paper mode the entry goes on
\* with a simulated id.)
C21_NoSecurityAbortsLiveEntry ==
    /\ [][ev' = "enter_no_security" =>
             /\ pc = "enter_lookup" /\ mode = "live" /\ pc' # "enter_save"
             /\ ~pos'.open
             /\ UNCHANGED <<pos, entry_price, trailing_sl, highest_profit, daily_trades,
                            ltp>>]_vars
    /\ []((pos.open /\ pos.security = "SIM") => ~pos.live)
\* a live entry was given up for want of a security id
C21_Witness ==
    /\ ev = "enter_no_security" /\ pc = "tail" /\ mode = "live"
    /\ ~pos.open /\ daily_trades = 0
\* C21 as stated: no position is ever created without a resolved security
\* id, in paper mode as well
C21_AsStated == pos.open => pos.security = "REAL"

\* C22: a failure of the trade store never blocks a decision: when
\* update_trade_exit fails the position is cleared and its PnL added to
\* daily_pnl all the same, and when save_trade fails the iteration goes on to
\* its end (candle reset, broadcast)
C22_StoreFailureNeverBlocks ==
    [][ev' = "exception" =>
          /\ pc = "close_wait" => (~pos'.open /\ daily_pnl' = daily_pnl + loc.pnl)
          /\ pc = "enter_save" => pc' = "tail"]_vars

\* C23: when broadcast has returned, every subscriber whose send failed is
\* gone from active_connections, and every other subscriber that was connected
\* throughout has received the snapshot
C23_FailedSubscriberDropped ==
    bc.pc = "returned" =>
        /\ \A c \in bc.failed : c \notin Connected
        /\ \A c \in (bc.first \cap Connected) \ bc.failed : c \in bc.received

\* the loop task is inside an exit or an entry whose effect outside the
\* program is under way and whose effect in memory is still to come: it awaits
\* the SELL order of a square-off, update_trade_exit, or the BUY order
DecisionInProgress == pc \in {"sq_order", "close_wait", "enter_order"}

\* C24: stop never interrupts a decision in progress: the loop is never
\* switched off between the broker order or store write of an exit or entry
\* and its completion in memory
C24_StopNeverInterrupts ==
    [][(running /\ ~running') => ~DecisionInProgress]_vars

\* C25: under every interleaving of the manual square-off with the loop's
\* own exit, each position is closed once and its PnL added to daily_pnl once:
\* daily_pnl changes only in the step that closes an open position (or in
\* the daily reset)
C25_PnlAddedOncePerPosition ==
    [][daily_pnl' # daily_pnl => ((pos.open /\ ~pos'.open) \/ ev' = "daily_reset")]_vars

\* C26: a square-off requested while no position is open returns the error
\* "No open position" and changes nothing: no order, no close, no counter
C26_SquareoffWithoutPosition ==
    [][ev' \in {"manual_squareoff", "No open position"} =>
          IF pos.open
          THEN ev' = "manual_squareoff"
          ELSE /\ ev' = "No open position"
               /\ UNCHANGED <<clockVars, budget, taskVars, mode, posVars, ltp, riskVars,
                              last_exit, candleVars, stVars, manualVars, iterVars,
                              resets_today, since_close, calcVars>>]_vars
\* the error was returned after a position had been opened and closed that day
C26_Witness ==
    /\ ev = "No open position" /\ ~pos.open /\ mpc = "idle"
    /\ daily_trades > 0 /\ running

\* C27: the mode is changed only while no position is open: a set_mode
\* request that finds a position is rejected and changes nothing, one that
\* finds none leaves the mode at the requested value, and no step taken while
\* a position is open, nor the step that opens or closes it, changes the mode
C27_ModeFixedWhilePositionOpen ==
    [][/\ ev' = "Cannot change mode with open position" =>
             /\ pos.open
             /\ UNCHANGED <<clockVars, budget, taskVars, mode, posVars, ltp, riskVars,
                            last_exit, candleVars, stVars, manualVars, iterVars,
                            resets_today, since_close, calcVars>>
       /\ \A m \in {"paper", "live"} : ev' = ModeSet(m) => (~pos.open /\ mode' = m)
       /\ mode' # mode => ev' \in {ModeSet("paper"), ModeSet("live")}
       /\ (pos.open \/ pos'.open) => mode' = mode]_vars
\* a request to leave live mode was rejected because of the open position
C27_Witness ==
    /\ ev = "Cannot change mode with open position"
    /\ pos.open /\ pos.live /\ mode = "live" /\ budget.modes = 0

C29_FlatStateIsClean ==
    ~pos.open => (trailing_sl = None /\ highest_profit = 0 /\ entry_price = 0)
\* a position whose trailing stop had been set was closed
C29_Witness ==
    /\ ev = "Trailing SL Hit" /\ ~pos.open /\ daily_trades > 0
    /\ trailing_sl = None /\ highest_profit = 0 /\ entry_price = 0

\* C30: at a candle close with a signal, when the trailing stop did not close
\* the position, an open CE is closed exactly when the signal is RED and an
\* open PE exactly when it is GREEN, with reason "SuperTrend Reversal"; and
\* the iteration that makes this exit opens no position: from the exit it
\* goes to the broadcast and the sleep
C30_ReversalExit ==
    [][/\ (pc = "trade" /\ pos.open) =>
             /\ ev' = "exit_reversal" <=>
                    \/ pos.option_type = "CE" /\ loc.signal = "RED"
                    \/ pos.option_type = "PE" /\ loc.signal = "GREEN"
             /\ ev' = "exit_reversal" =>
                    (pc' = "close_wait" /\ loc'.reason = "SuperTrend Reversal")
             /\ ev' # "exit_reversal" => pc' = "tail"
       /\ ev' = "SuperTrend Reversal" => (pc = "close_wait" /\ pc' = "tail" /\ ~pos'.open)
       /\ (pc = "close_wait" /\ loc.cont = "rev") =>
             (pc' \in {"close_wait", "tail", "sleep", "off"} /\ (pos'.open => pos.open))
       /\ pc = "tail" => (pc' = "sleep" /\ (pos'.open => pos.open))]_vars
\* a reversal exit was made and the iteration is about to broadcast
C30_Witness ==
    /\ ev = "SuperTrend Reversal" /\ ~pos.open /\ pc = "tail"
    /\ iter_closes = 1 /\ last_exit = 0

\* the last two entries of supertrend_values and the close of the last candle
LastOutput == st.supertrend_values[Len(st.supertrend_values)]
PrevOutput == st.supertrend_values[Len(st.supertrend_values) - 1]
LastClose == <<st.candles[Len(st.candles)].close, 1>>

\* C31: when add_candle returns an output and there was an output before it,
\* the direction is DOWN after UP exactly when close < final_lower and UP
\* after DOWN exactly when close > final_upper (a close on the band keeps the
\* direction); the value is final_lower when UP and final_upper when DOWN, and
\* the signal is GREEN for UP, RED for DOWN
C31_DirectionFlipsOnCrossing ==
    (st_out.defined /\ Len(st.supertrend_values) >= 2) =>
        /\ PrevOutput.direction = 1 =>
              (LastOutput.direction = -1 <=> RLess(LastClose, LastOutput.lower))
        /\ PrevOutput.direction = -1 =>
              (LastOutput.direction = 1 <=> RLess(LastOutput.upper, LastClose))
        /\ LastOutput.direction \in {1, -1}
        /\ st.direction = LastOutput.direction
        /\ st_out.value = IF LastOutput.direction = 1 THEN LastOutput.lower
                          ELSE LastOutput.upper
        /\ st_out.signal = IF LastOutput.direction = 1 THEN "GREEN" ELSE "RED"
\* a close on the lower band after an UP output: the direction stayed UP
C31_Witness ==
    /\ st_out.defined /\ Len(st.supertrend_values) >= 2
    /\ PrevOutput.direction = 1 /\ LastOutput.direction = 1
    /\ LastClose = LastOutput.lower
    /\ st_out.signal = "GREEN" /\ st_out.value = LastOutput.lower

\* C32: a candle handed to add_candle is consumed once: the accumulator is
\* reset in the iteration that handed it over, also when the signal
\* processing of that boundary (trailing-stop exit, reversal exit, entry)
\* raises an exception
C32_CandleConsumedOnce ==
    [][(ev' = "exception" /\ (pc = "enter_save" \/ loc.cont \in {"sl", "rev"})) =>
          (elapsed' = 0 /\ ~candle_has')]_vars

\* C33: in live mode every close of a position that was opened by a BUY
\* order comes with a SELL order the broker accepted: the call of
\* close_position that clears the position was made after place_order(SELL)
\* succeeded
C33_LiveCloseHasSellOrder ==
    [][(mode = "live" /\ pos.open /\ pos.live /\ ~pos'.open) =>
          (IF mpc = "close" /\ mpc' = "idle" THEN mloc.sold ELSE loc.sold)]_vars

\* C34: the positions opened in one trading day number at most
\* max_trades_per_day, entries of the first minute of the session included
C34_PositionsPerDayWithinCap == opened_today <= max_trades_per_day

\* C35: an open position has a positive entry price, in paper and in live
\* mode, also when the option price lookup gave nothing and the order result
\* carries no fill price
C35_OpenPositionHasPrice == pos.open => entry_price > 0

\* the indicator has just returned its first output since it was constructed
FirstOutput == st_out.defined /\ Fed = st.period
\* 2 * multiplier >= period, which the defaults 7 and 4 satisfy
WideBands == 2 * st.multiplier >= st.period

Deciding == {"slcheck", "trade", "close_wait"}
Agrees == pos.option_type = option_type_for(last_signal)

\* C37: at the end of every loop iteration an open position agrees with the
\* last emitted signal, a CE under GREEN and a PE under RED, as long as the
\* trade store does not fail: a position is stored with the type of the
\* signal, and the iteration that emitted a signal against the open position
\* does not leave the candle boundary with that position still open
C37_PositionAgreesWithSignal ==
    [][/\ ev' = "enter_store" => Agrees'
       /\ (pc \in Deciding /\ pos.open /\ ~Agrees /\ ev' # "exception" /\ pc' \notin Deciding)
             => (~pos'.open \/ Agrees')]_vars

\* C38: with trail_start_profit >= 0 and trail_step > 0, a trailing stop that
\* is set lies between the entry price and the entry price plus the highest
\* profit less trail_start_profit
C38_TrailingSlBetweenBounds ==
    (trail_start_profit >= 0 /\ trail_step > 0 /\ pos.open /\ trailing_sl # None) =>
        /\ entry_price <= trailing_sl
        /\ trailing_sl <= entry_price + highest_profit - trail_start_profit
\* a stop strictly inside the two bounds, with the premium back under its best
C38_Witness ==
    /\ pos.open /\ trailing_sl # None
    /\ entry_price < trailing_sl
    /\ trailing_sl < entry_price + highest_profit - trail_start_profit
    /\ ltp - entry_price < highest_profit

=============================================================================
